---- MODULE Spec2Model ----
(***************************************************************************)
(* A model of src/model.py: geolocated agents are binned into the zones of *)
(* a latitude/longitude grid (Zone.ZONES, built lazily by                  *)
(* Zone.find_zone_that_contains), and per-zone statistics are computed.    *)
(***************************************************************************)
EXTENDS Integers, Sequences, FiniteSets

VARIABLES
    WIDTH_DEGREE,   \* Zone.WIDTH_DEGREE   (class attribute, src/model.py:38)
    HEIGHT_DEGREE,  \* Zone.HEIGHT_DEGREE  (class attribute, src/model.py:39)
    ZONES,          \* Zone.ZONES          (class attribute, src/model.py:40)
    ingested,       \* completed iterations of main's ingestion loop
    pc,             \* where main is: "ingesting" or "crashed" (an exception left main)
    last,           \* the outcome of the latest find_zone_that_contains call
    zones,          \* a list of Zone objects built directly by Zone(corner1, corner2)
    answer          \* the value returned by the latest query on `zones`

vars == <<WIDTH_DEGREE, HEIGHT_DEGREE, ZONES, ingested, pc, last, zones, answer>>

(***************************************************************************)
(* Numbers.  Coordinates are Python floats (or ints).  A number is held as *)
(* h/2 + t*2^-60 degrees: h counts half degrees, and t in {-1,0,1} adds a  *)
(* 2^-60 offset.  Every h/2 with |h| < 2^53 is a double; h/2 + t*2^-60     *)
(* with t # 0 is a double only for h = 0 (it needs more than 53            *)
(* significant bits otherwise), so the inputs carry t # 0 only with h = 0. *)
(***************************************************************************)
Num(h, t) == [h |-> h, t |-> t]

FromInt(k) == Num(2 * k, 0)

Lt(a, b) == a.h < b.h \/ (a.h = b.h /\ a.t < b.t)

Ge(a, b) == ~Lt(a, b)

Gt(a, b) == Lt(b, a)

PyMax(a, b) == IF Lt(a, b) THEN b ELSE a

PyMin(a, b) == IF Lt(b, a) THEN b ELSE a

\* x - m for a float x and an int m, rounded to the nearest double: the exact
\* difference (h - 2m)/2 + t*2^-60 is a double when h - 2m = 0; otherwise
\* its magnitude is at least 1/2, where doubles are at least 2^-53 apart, and
\* the 2^-60 offset is rounded away.
FloatSub(x, m) == IF x.h - 2 * m = 0 THEN Num(0, x.t) ELSE Num(x.h - 2 * m, 0)

\* int(x / w) for a float x and an int w > 0: true division, then truncation
\* towards zero.  A quotient h/(2w) that is no integer is at least 1/(2w) away
\* from one, so rounding the division never reaches the next integer.
IntOfQuotient(x, w) ==
    IF x.h >= 0 THEN x.h \div (2 * w) ELSE -((-x.h) \div (2 * w))

(***************************************************************************)
(* class Position, class Agent                                             *)
(***************************************************************************)
Position(longitude_degrees, latitude_degrees) ==
    [longitude_degrees |-> longitude_degrees, latitude_degrees |-> latitude_degrees]

\* Agent(position, **agent_attributes); id stands for the object's identity.
Agent(id, position, attributes) ==
    [id |-> id, position |-> position,
     agreeableness |-> attributes.agreeableness, income |-> attributes.income]

(***************************************************************************)
(* class Zone                                                              *)
(***************************************************************************)
EARTH_RADIUS_KILOMETERS == 6371
MIN_LONGITUDE_DEGREES == -180
MAX_LONGITUDE_DEGREES == 180
MIN_LATITUDE_DEGREES == -90
MAX_LATITUDE_DEGREES == 90

Zone(corner1, corner2) ==
    [corner1 |-> corner1, corner2 |-> corner2, inhabitants |-> <<>>]

contains(zone, position) ==
    /\ Gt(PyMax(zone.corner1.longitude_degrees, zone.corner2.longitude_degrees),
          position.longitude_degrees)
    /\ Ge(position.longitude_degrees,
          PyMin(zone.corner1.longitude_degrees, zone.corner2.longitude_degrees))
    /\ Gt(PyMax(zone.corner1.latitude_degrees, zone.corner2.latitude_degrees),
          position.latitude_degrees)
    /\ Ge(position.latitude_degrees,
          PyMin(zone.corner1.latitude_degrees, zone.corner2.latitude_degrees))

add_inhabitant_first(zone, inhabitant) ==
    [zone EXCEPT !.inhabitants = <<inhabitant>> \o @]

add_inhabitant_twice(zone, inhabitant) ==
    [zone EXCEPT !.inhabitants = Append(Append(@, inhabitant), inhabitant)]

add_inhabitant(zone, inhabitant) ==
    [zone EXCEPT !.inhabitants = Append(@, inhabitant)]

population(zone) == Len(zone.inhabitants)

(***************************************************************************)
(* Values the statistics return.  A float is kept exact, as the rational   *)
(* num/den times pi^pi; an int, None and a raised exception are told apart *)
(* from it by `kind`.  The corners of every zone of the model are Python   *)
(* ints (the t of their coordinates is 0).                                 *)
(***************************************************************************)
Float(num, den, pi) == [kind |-> "float", num |-> num, den |-> den, pi |-> pi]

PyInt(n) == [kind |-> "int", num |-> n, den |-> 1, pi |-> 0]

None == [kind |-> "None", num |-> 0, den |-> 1, pi |-> 0]

Raised(exception) == [kind |-> exception, num |-> 0, den |-> 1, pi |-> 0]

Abs(n) == IF n < 0 THEN -n ELSE n

\* Position.longitude, Position.latitude: degrees * math.pi / 180, the
\* degrees being h/2.
Radians(degrees) == Float(degrees.h, 360, 1)

longitude(position) == Radians(position.longitude_degrees)

latitude(position) == Radians(position.latitude_degrees)

width(zone) ==
    Float(Abs(longitude(zone.corner2).num - longitude(zone.corner1).num)
              * EARTH_RADIUS_KILOMETERS,
          longitude(zone.corner1).den, longitude(zone.corner1).pi)

height(zone) ==
    Float(Abs(latitude(zone.corner2).num - latitude(zone.corner1).num)
              * EARTH_RADIUS_KILOMETERS,
          latitude(zone.corner1).den, latitude(zone.corner1).pi)

area(zone) ==
    Float(width(zone).num * height(zone).num, width(zone).den * height(zone).den,
          width(zone).pi + height(zone).pi)

\* n / x for an int n and a float x: ZeroDivisionError when x is 0.0.
DivideByFloat(n, x) ==
    IF x.num = 0 THEN Raised("ZeroDivisionError") ELSE Float(n * x.den, x.num, -x.pi)

\* n / m for two ints: ZeroDivisionError when m is 0.
TrueDivide(n, m) ==
    IF m = 0 THEN Raised("ZeroDivisionError") ELSE Float(n, m, 0)

population_density_zero(zone) ==
    IF DivideByFloat(population(zone), area(zone)).kind = "ZeroDivisionError"
    THEN PyInt(0)
    ELSE DivideByFloat(population(zone), area(zone))

\* The except branch logs the error and falls off the end: None is returned.
population_density(zone) ==
    IF DivideByFloat(population(zone), area(zone)).kind = "ZeroDivisionError"
    THEN None
    ELSE DivideByFloat(population(zone), area(zone))

\* sum(values): the ints are added from the left, starting from 0.
RECURSIVE PySum(_)
PySum(values) ==
    IF values = <<>> THEN 0
    ELSE PySum(SubSeq(values, 1, Len(values) - 1)) + values[Len(values)]

average_agreeableness_unguarded(zone) ==
    TrueDivide(PySum([k \in 1..Len(zone.inhabitants) |-> zone.inhabitants[k].agreeableness]),
               population(zone))

average_agreeableness(zone) ==
    IF zone.inhabitants = <<>> THEN PyInt(0)
    ELSE TrueDivide(PySum([k \in 1..Len(zone.inhabitants) |->
                              zone.inhabitants[k].agreeableness]),
                    population(zone))

average_income(zone) ==
    IF zone.inhabitants = <<>> THEN PyInt(0)
    ELSE TrueDivide(PySum([k \in 1..Len(zone.inhabitants) |-> zone.inhabitants[k].income]),
                    population(zone))

IsException(value) == value.kind \notin {"float", "int", "None"}

\* A list comprehension: the list of the values, or the first exception one
\* of them raised.
Comprehension(values) ==
    IF \E k \in 1..Len(values) : IsException(values[k])
    THEN values[CHOOSE k \in 1..Len(values) :
                   /\ IsException(values[k])
                   /\ \A j \in 1..(k - 1) : ~IsException(values[j])]
    ELSE [kind |-> "list", values |-> values]

\* AgreeablenessGraph.xy_values(zs) and IncomeGraph.xy_values(zs): the pair
\* of lists, or the exception that left the method.
xy_values(graph, zs) ==
    LET x_values == Comprehension([k \in 1..Len(zs) |-> population_density(zs[k])])
        y_values == Comprehension([k \in 1..Len(zs) |->
                        IF graph = "agreeableness" THEN average_agreeableness(zs[k])
                        ELSE average_income(zs[k])])
    IN  IF x_values.kind # "list"
        THEN [op |-> "xy_values", graph |-> graph, raised |-> x_values.kind,
              x_values |-> <<>>, y_values |-> <<>>]
        ELSE IF y_values.kind # "list"
        THEN [op |-> "xy_values", graph |-> graph, raised |-> y_values.kind,
              x_values |-> <<>>, y_values |-> <<>>]
        ELSE [op |-> "xy_values", graph |-> graph, raised |-> "none",
              x_values |-> x_values.values, y_values |-> y_values.values]

\* range(start, stop, step) for step > 0, as the list of its values.
PyRange(start, stop, step) ==
    LET n == IF stop > start THEN (stop - start + step - 1) \div step ELSE 0
    IN  [i \in 1..n |-> start + (i - 1) * step]

GridZonesWide(latitudes, longitudes) ==
    [k \in 1..(Len(latitudes) * Len(longitudes)) |->
        LET lat       == latitudes[((k - 1) \div Len(longitudes)) + 1]
            lon       == longitudes[((k - 1) % Len(longitudes)) + 1]
            bottom_left_corner == Position(FromInt(lon), FromInt(lat))
            top_right_corner   == Position(FromInt(lon + 2 * WIDTH_DEGREE),
                                           FromInt(lat + HEIGHT_DEGREE))
        IN  Zone(bottom_left_corner, top_right_corner)]

\* The zones the nested loops append, in the order they append them:
\* latitude bands outer, longitudes inner.
GridZones(latitudes, longitudes) ==
    [k \in 1..(Len(latitudes) * Len(longitudes)) |->
        LET lat       == latitudes[((k - 1) \div Len(longitudes)) + 1]
            lon       == longitudes[((k - 1) % Len(longitudes)) + 1]
            bottom_left_corner == Position(FromInt(lon), FromInt(lat))
            top_right_corner   == Position(FromInt(lon + WIDTH_DEGREE),
                                           FromInt(lat + HEIGHT_DEGREE))
        IN  Zone(bottom_left_corner, top_right_corner)]

\* cls._initialize_zones(): appends to the list zs = cls.ZONES.
initialize_zones(zs) ==
    zs \o GridZones(PyRange(MIN_LATITUDE_DEGREES, MAX_LATITUDE_DEGREES, HEIGHT_DEGREE),
                    PyRange(MIN_LONGITUDE_DEGREES, MAX_LONGITUDE_DEGREES, WIDTH_DEGREE))

ensure_zones_always(zs) == initialize_zones(zs)

\* "if not cls.ZONES: cls._initialize_zones()"
ensure_zones(zs) == IF zs = <<>> THEN initialize_zones(zs) ELSE zs

\* cls.ZONES[i] on a list of n elements: the 1-based place of the element a
\* Python index i selects (negative indices count from the end), 0 for the
\* IndexError of an index outside -n .. n-1.
PyIndex(n, i) ==
    IF 0 <= i /\ i < n THEN i + 1
    ELSE IF -n <= i /\ i < 0 THEN n + i + 1
    ELSE 0

longitude_index(position) ==
    IntOfQuotient(FloatSub(position.longitude_degrees, MIN_LONGITUDE_DEGREES), WIDTH_DEGREE)

latitude_index(position) ==
    IntOfQuotient(FloatSub(position.latitude_degrees, MIN_LATITUDE_DEGREES), HEIGHT_DEGREE)

longitude_bins ==
    IntOfQuotient(FromInt(MAX_LONGITUDE_DEGREES - MIN_LONGITUDE_DEGREES), WIDTH_DEGREE)

zone_index(position) ==
    longitude_bins * latitude_index(position) + longitude_index(position)

\* The outcome of the lookup and of its assert on the grid zs.
Outcome(zs, position) ==
    LET slot == PyIndex(Len(zs), zone_index(position))
    IN  [position   |-> position,
         zone_index |-> zone_index(position),
         zone       |-> IF slot # 0 /\ contains(zs[slot], position) THEN slot ELSE 0,
         outcome    |-> IF slot = 0 THEN "IndexError"
                        ELSE IF ~contains(zs[slot], position) THEN "AssertionError"
                        ELSE "zone"]

find_zone_unasserted(zs, position) ==
    LET slot == PyIndex(Len(ensure_zones(zs)), zone_index(position))
    IN  [ZONES  |-> ensure_zones(zs),
         result |-> [position   |-> position,
                     zone_index |-> zone_index(position),
                     zone       |-> slot,
                     outcome    |-> IF slot = 0 THEN "IndexError" ELSE "zone"]]

\* Zone.find_zone_that_contains(position) called with cls.ZONES = zs: the
\* list it leaves in cls.ZONES and what the caller gets (a zone, given by its
\* place in the list, or the exception raised).
find_zone_that_contains(zs, position) ==
    [ZONES |-> ensure_zones(zs), result |-> Outcome(ensure_zones(zs), position)]

(***************************************************************************)
(* Inputs                                                                  *)
(***************************************************************************)
MaxAgents == 2
MaxZones == 2
MaxInhabitants == 2

\* Cell sizes.  The source sets WIDTH_DEGREE = HEIGHT_DEGREE = 1, a grid of
\* 64800 zones; the grids checked are built by the same code from cells of
\* 90 or 120 by 60 or 90 degrees (4 x 3 down to 3 x 2 zones), sizes that, like
\* 1, divide the range.  AnyWidths and AnyHeights add sizes that do not.
Widths == {90, 120}
Heights == {60, 90}
AnyWidths == Widths \cup {100}
AnyHeights == Heights \cup {70}

\* Longitudes -300.5, -180.5, -180, -90, -2^-60, 0, 2^-60, 59.5, 60, 179.5, 180.
LongitudeSamples ==
    {Num(h, 0) : h \in {-601, -361, -360, -180, 0, 119, 120, 359, 360}}
        \cup {Num(0, -1), Num(0, 1)}

\* Latitudes -451, -90.5, -90, -30, -2^-60, 0, 48.5, 89.5, 90.
LatitudeSamples ==
    {Num(h, 0) : h \in {-902, -181, -180, -60, 0, 97, 179, 180}} \cup {Num(0, -1)}

\* Longitudes -180, 59.5 and latitudes -90, 48.5, 89.5: each sample of one axis
\* is paired with these values of the other.
CoreLongitudes == {Num(-360, 0), Num(119, 0)}
CoreLatitudes == {Num(-180, 0), Num(97, 0), Num(179, 0)}

Positions ==
    {p \in {Position(x, y) : x \in LongitudeSamples, y \in LatitudeSamples} :
        p.longitude_degrees \in CoreLongitudes \/ p.latitude_degrees \in CoreLatitudes}

\* The positions of the records main reads: (-180, -90), (59.5, 48.5),
\* (-2^-60, 48.5) and (180, -90).
AgentPositions ==
    {Position(Num(-360, 0), Num(-180, 0)), Position(Num(119, 0), Num(97, 0)),
     Position(Num(0, -1), Num(97, 0)), Position(Num(360, 0), Num(-180, 0))}

AgentAttributes == {[agreeableness |-> 1, income |-> 4], [agreeableness |-> 2, income |-> 7]}

NoCall == [position |-> Position(FromInt(0), FromInt(0)), zone_index |-> 0,
           zone |-> 0, outcome |-> "none"]

NoAnswer == [op |-> "none"]

\* The corners of the zones built directly: (0,0) or (2,2), then (0,0), (2,0)
\* or (3,1).  They give zones of no width, of no height, of neither, and
\* zones whose first corner is the upper one.
FirstCorners == {Position(FromInt(0), FromInt(0)), Position(FromInt(2), FromInt(2))}

SecondCorners ==
    {Position(FromInt(0), FromInt(0)), Position(FromInt(2), FromInt(0)),
     Position(FromInt(3), FromInt(1))}

\* The Agent objects added to those zones.
AgentPool ==
    {Agent(1, Position(FromInt(0), FromInt(0)), [agreeableness |-> 1, income |-> 4]),
     Agent(2, Position(FromInt(0), FromInt(0)), [agreeableness |-> 2, income |-> 7])}

(***************************************************************************)
(* The grid program: main's ingestion loop, and lookups from other callers *)
(***************************************************************************)
InitGrid(widths, heights) ==
    /\ WIDTH_DEGREE \in widths
    /\ HEIGHT_DEGREE \in heights
    /\ ZONES = <<>>
    /\ ingested = 0
    /\ pc = "ingesting"
    /\ last = NoCall
    /\ zones = <<>>
    /\ answer = NoAnswer

Init == InitGrid(Widths, Heights)

InitAnySize == InitGrid(AnyWidths, AnyHeights)

\* One iteration of main's loop over list_of_agents.
main_step ==
    /\ pc = "ingesting"
    /\ ingested < MaxAgents
    /\ \E p \in AgentPositions, attributes \in AgentAttributes :
         LET agent == Agent(ingested + 1, p, attributes)
             found == find_zone_that_contains(ZONES, agent.position)
         IN  /\ last' = found.result
             /\ IF found.result.outcome = "zone"
                THEN /\ ZONES' = [found.ZONES EXCEPT
                                    ![found.result.zone] = add_inhabitant(@, agent)]
                     /\ ingested' = ingested + 1
                     /\ pc' = pc
                ELSE /\ ZONES' = found.ZONES
                     /\ ingested' = ingested
                     /\ pc' = "crashed"
    /\ UNCHANGED <<WIDTH_DEGREE, HEIGHT_DEGREE, zones, answer>>

\* Zone.find_zone_that_contains(position) called from another call site.
lookup ==
    /\ pc = "ingesting"
    /\ \E p \in Positions :
         LET found == find_zone_that_contains(ZONES, p)
         IN  /\ ZONES' = found.ZONES
             /\ last' = found.result
    /\ UNCHANGED <<WIDTH_DEGREE, HEIGHT_DEGREE, ingested, pc, zones, answer>>

Next == main_step \/ lookup

Spec == Init /\ [][Next]_vars

SpecAnySize == InitAnySize /\ [][Next]_vars

(***************************************************************************)
(* Zones built directly, their inhabitants and their statistics            *)
(***************************************************************************)
RECURSIVE TotalPopulation(_)
TotalPopulation(zs) ==
    IF zs = <<>> THEN 0 ELSE population(Head(zs)) + TotalPopulation(Tail(zs))

InitZone ==
    /\ WIDTH_DEGREE = 1
    /\ HEIGHT_DEGREE = 1
    /\ ZONES = <<>>
    /\ ingested = 0
    /\ pc = "ingesting"
    /\ last = NoCall
    /\ zones = <<>>
    /\ answer = NoAnswer

\* zone = Zone(corner1, corner2), kept in a list.
new_zone ==
    /\ Len(zones) < MaxZones
    /\ \E corner1 \in FirstCorners, corner2 \in SecondCorners :
         zones' = Append(zones, Zone(corner1, corner2))
    /\ answer' = NoAnswer
    /\ UNCHANGED <<WIDTH_DEGREE, HEIGHT_DEGREE, ZONES, ingested, pc, last>>

\* zones[i].add_inhabitant(agent)
add ==
    /\ TotalPopulation(zones) < MaxInhabitants
    /\ \E i \in 1..Len(zones), agent \in AgentPool :
         zones' = [zones EXCEPT ![i] = add_inhabitant(@, agent)]
    /\ answer' = NoAnswer
    /\ UNCHANGED <<WIDTH_DEGREE, HEIGHT_DEGREE, ZONES, ingested, pc, last>>

\* graph.xy_values(zones), as BaseGraph.show calls it.
show ==
    /\ \E graph \in {"agreeableness", "income"} : answer' = xy_values(graph, zones)
    /\ UNCHANGED <<WIDTH_DEGREE, HEIGHT_DEGREE, ZONES, ingested, pc, last, zones>>

NextZone == new_zone \/ add \/ show

SpecZone == InitZone /\ [][NextZone]_vars

(***************************************************************************)
(* Properties of the grid program                                          *)
(***************************************************************************)
InRange(position) ==
    /\ Ge(position.longitude_degrees, FromInt(MIN_LONGITUDE_DEGREES))
    /\ Lt(position.longitude_degrees, FromInt(MAX_LONGITUDE_DEGREES))
    /\ Ge(position.latitude_degrees, FromInt(MIN_LATITUDE_DEGREES))
    /\ Lt(position.latitude_degrees, FromInt(MAX_LATITUDE_DEGREES))

Called == last.outcome # "none"

LowLongitude(zone) == PyMin(zone.corner1.longitude_degrees, zone.corner2.longitude_degrees)
HighLongitude(zone) == PyMax(zone.corner1.longitude_degrees, zone.corner2.longitude_degrees)
LowLatitude(zone) == PyMin(zone.corner1.latitude_degrees, zone.corner2.latitude_degrees)
HighLatitude(zone) == PyMax(zone.corner1.latitude_degrees, zone.corner2.latitude_degrees)

\* The zones of ZONES that contain the position, by their place in the list.
ZonesContaining(position) == {i \in 1..Len(ZONES) : contains(ZONES[i], position)}

\* C1 as claimed: every lookup of a position with longitude in [-180,180) and
\* latitude in [-90,90) returns a zone, that zone contains the position, and
\* no other zone of ZONES does.
C1_EveryInRangeLookupReturnsTheOneZone ==
    (Called /\ InRange(last.position)) =>
        /\ last.outcome = "zone"
        /\ ZonesContaining(last.position) = {last.zone}

\* The lookups C1 holds for: an in-range position found in its one zone.
C1_InRangeLookupFound ==
    /\ Called
    /\ InRange(last.position)
    /\ last.outcome = "zone"
    /\ ZonesContaining(last.position) = {last.zone}

\* The places (zone, rank in its inhabitants) where the agent `id` is stored.
PlacesOf(id) ==
    {place \in UNION {{<<i, j>> : j \in 1..Len(ZONES[i].inhabitants)} : i \in 1..Len(ZONES)} :
        ZONES[place[1]].inhabitants[place[2]].id = id}

SameGrid(before, after) ==
    /\ Len(after) = Len(before)
    /\ \A i \in 1..Len(before) :
          /\ after[i].corner1 = before[i].corner1
          /\ after[i].corner2 = before[i].corner2

CellsDivideRange ==
    /\ (MAX_LONGITUDE_DEGREES - MIN_LONGITUDE_DEGREES) % WIDTH_DEGREE = 0
    /\ (MAX_LATITUDE_DEGREES - MIN_LATITUDE_DEGREES) % HEIGHT_DEGREE = 0

\* C3 as claimed: for every cell width and height, after the first lookup
\* ZONES has exactly (360/WIDTH_DEGREE) * (180/HEIGHT_DEGREE) zones.
C3_ZoneCountForEveryCellSize ==
    Called =>
        Len(ZONES) * WIDTH_DEGREE * HEIGHT_DEGREE =
            (MAX_LONGITUDE_DEGREES - MIN_LONGITUDE_DEGREES)
                * (MAX_LATITUDE_DEGREES - MIN_LATITUDE_DEGREES)

\* C3, amended: ZONES is empty before the first lookup; after it, when the
\* cell width divides 360 and the cell height divides 180, ZONES has exactly
\* (360/WIDTH_DEGREE) * (180/HEIGHT_DEGREE) zones; and for every cell size,
\* once built, ZONES keeps its length and its zones, in the same order,
\* through every later call.
C3_GridBuiltOnce ==
    /\ [](Called <=> ZONES # <<>>)
    /\ []((Called /\ CellsDivideRange) =>
            Len(ZONES) = ((MAX_LONGITUDE_DEGREES - MIN_LONGITUDE_DEGREES) \div WIDTH_DEGREE)
                       * ((MAX_LATITUDE_DEGREES - MIN_LATITUDE_DEGREES) \div HEIGHT_DEGREE))
    /\ [][ZONES # <<>> => SameGrid(ZONES, ZONES')]_vars

\* A lookup made on an already populated grid whose cells divide the range.
C3_LookupAfterIngestion ==
    /\ CellsDivideRange
    /\ ingested >= 1
    /\ Called
    /\ \E i \in 1..Len(ZONES) : population(ZONES[i]) >= 1 /\ last.zone # i

Overlap(z1, z2) ==
    /\ Lt(LowLongitude(z1), HighLongitude(z2))
    /\ Lt(LowLongitude(z2), HighLongitude(z1))
    /\ Lt(LowLatitude(z1), HighLatitude(z2))
    /\ Lt(LowLatitude(z2), HighLatitude(z1))

\* Every zone edge, and the edges of the declared range.  The lines through
\* these cut the plane into cells that each lie wholly inside or wholly
\* outside every zone, so a statement about all points is decided at the
\* lower-left corner of each cell.
LongitudeEdges ==
    {FromInt(MIN_LONGITUDE_DEGREES), FromInt(MAX_LONGITUDE_DEGREES)}
        \cup {LowLongitude(ZONES[i]) : i \in 1..Len(ZONES)}
        \cup {HighLongitude(ZONES[i]) : i \in 1..Len(ZONES)}

LatitudeEdges ==
    {FromInt(MIN_LATITUDE_DEGREES), FromInt(MAX_LATITUDE_DEGREES)}
        \cup {LowLatitude(ZONES[i]) : i \in 1..Len(ZONES)}
        \cup {HighLatitude(ZONES[i]) : i \in 1..Len(ZONES)}

\* C4: once built, the zones partition the declared range: no two distinct
\* zones' rectangles [min lon, max lon) x [min lat, max lat) share a point,
\* no zone reaches outside [-180,180) x [-90,90), and every point of that
\* range lies in a zone.
C4_ZonesPartitionTheRange ==
    ZONES # <<>> =>
        /\ \A i, j \in 1..Len(ZONES) : i # j => ~Overlap(ZONES[i], ZONES[j])
        /\ \A i \in 1..Len(ZONES) :
              /\ Ge(LowLongitude(ZONES[i]), FromInt(MIN_LONGITUDE_DEGREES))
              /\ Ge(FromInt(MAX_LONGITUDE_DEGREES), HighLongitude(ZONES[i]))
              /\ Ge(LowLatitude(ZONES[i]), FromInt(MIN_LATITUDE_DEGREES))
              /\ Ge(FromInt(MAX_LATITUDE_DEGREES), HighLatitude(ZONES[i]))
        /\ \A x \in LongitudeEdges, y \in LatitudeEdges :
              Cardinality(ZonesContaining(Position(x, y))) =
                  IF InRange(Position(x, y)) THEN 1 ELSE 0

\* The grid of 4 x 3 zones is built.
C4_GridOfTwelveBuilt ==
    /\ Len(ZONES) = 12
    /\ WIDTH_DEGREE = 90
    /\ HEIGHT_DEGREE = 60

OnLongitudeBoundary(position) ==
    /\ position.longitude_degrees.t = 0
    /\ (position.longitude_degrees.h - 2 * MIN_LONGITUDE_DEGREES) % (2 * WIDTH_DEGREE) = 0

OnLatitudeBoundary(position) ==
    /\ position.latitude_degrees.t = 0
    /\ (position.latitude_degrees.h - 2 * MIN_LATITUDE_DEGREES) % (2 * HEIGHT_DEGREE) = 0

\* C5 as claimed: every zone of the grid contains the position at its lower
\* longitude and lower latitude and none whose longitude is its upper
\* longitude or whose latitude is its upper latitude; and a lookup of an
\* in-range position that lies on a cell boundary returns the cell whose
\* lower edge is that boundary.
C5_BoundaryBelongsToTheUpperCell ==
    /\ \A i \in 1..Len(ZONES) :
          /\ contains(ZONES[i], Position(LowLongitude(ZONES[i]), LowLatitude(ZONES[i])))
          /\ ~contains(ZONES[i], Position(HighLongitude(ZONES[i]), LowLatitude(ZONES[i])))
          /\ ~contains(ZONES[i], Position(LowLongitude(ZONES[i]), HighLatitude(ZONES[i])))
    /\ (Called /\ InRange(last.position)) =>
          /\ OnLongitudeBoundary(last.position) =>
                /\ last.outcome = "zone"
                /\ LowLongitude(ZONES[last.zone]) = last.position.longitude_degrees
          /\ OnLatitudeBoundary(last.position) =>
                /\ last.outcome = "zone"
                /\ LowLatitude(ZONES[last.zone]) = last.position.latitude_degrees

\* A lookup of an in-range position on a cell boundary that returned the cell
\* above the boundary.
C5_BoundaryLookupFound ==
    /\ Called
    /\ InRange(last.position)
    /\ OnLatitudeBoundary(last.position)
    /\ Gt(last.position.latitude_degrees, FromInt(MIN_LATITUDE_DEGREES))
    /\ last.outcome = "zone"
    /\ LowLatitude(ZONES[last.zone]) = last.position.latitude_degrees

\* C8 as claimed: a lookup of a position outside the declared range either
\* fails with IndexError or returns a zone, which does not contain it.
C8_OutOfRangeFailsOrReturnsAWrongZone ==
    (Called /\ ~InRange(last.position)) =>
        \/ last.outcome = "IndexError"
        \/ /\ last.outcome = "zone"
           /\ ~contains(ZONES[last.zone], last.position)

\* C8, amended: a lookup of a position outside the declared range returns no
\* zone: it fails with IndexError when the computed index is outside the
\* list, and otherwise with the AssertionError of line 113, the indexed zone
\* (found from the end of the list for a negative index) not containing it.
C8_OutOfRangeAlwaysFails ==
    (Called /\ ~InRange(last.position)) =>
        LET slot == PyIndex(Len(ZONES), last.zone_index)
        IN  /\ last.zone = 0
            /\ ZonesContaining(last.position) = {}
            /\ IF last.zone_index >= Len(ZONES) \/ last.zone_index < -Len(ZONES)
               THEN last.outcome = "IndexError"
               ELSE /\ last.outcome = "AssertionError"
                    /\ slot \in 1..Len(ZONES)
                    /\ ~contains(ZONES[slot], last.position)

\* An out-of-range lookup whose negative index selected a zone from the end
\* of the list, and failed the assertion.
C8_NegativeIndexFailsAssertion ==
    /\ Called
    /\ ~InRange(last.position)
    /\ last.zone_index < 0
    /\ last.outcome = "AssertionError"

\* floor((x - minimum) / step) over the reals, for x = h/2 + t*2^-60.
RealFloorOfQuotient(x, minimum, step) ==
    IF x.t < 0 /\ (x.h - 2 * minimum) % (2 * step) = 0
    THEN ((x.h - 2 * minimum) \div (2 * step)) - 1
    ELSE (x.h - 2 * minimum) \div (2 * step)

\* C9 as claimed: for every in-range position the index the lookup computes
\* is lat_idx * lon_bins + lon_idx, with lon_idx = floor((lon - MIN_LON) /
\* WIDTH), lat_idx = floor((lat - MIN_LAT) / HEIGHT) and lon_bins = (MAX_LON -
\* MIN_LON) / WIDTH, and the zone stored at that index has the corners
\* (MIN_LON + lon_idx*WIDTH, MIN_LAT + lat_idx*HEIGHT) and
\* (MIN_LON + (lon_idx+1)*WIDTH, MIN_LAT + (lat_idx+1)*HEIGHT).
C9_LookupIndexIsRowMajor ==
    (Called /\ InRange(last.position)) =>
        LET lon_idx == RealFloorOfQuotient(last.position.longitude_degrees,
                                           MIN_LONGITUDE_DEGREES, WIDTH_DEGREE)
            lat_idx == RealFloorOfQuotient(last.position.latitude_degrees,
                                           MIN_LATITUDE_DEGREES, HEIGHT_DEGREE)
            lon_bins == (MAX_LONGITUDE_DEGREES - MIN_LONGITUDE_DEGREES) \div WIDTH_DEGREE
            index == lat_idx * lon_bins + lon_idx
        IN  /\ last.zone_index = index
            /\ index + 1 \in 1..Len(ZONES)
            /\ ZONES[index + 1].corner1 =
                  Position(FromInt(MIN_LONGITUDE_DEGREES + lon_idx * WIDTH_DEGREE),
                           FromInt(MIN_LATITUDE_DEGREES + lat_idx * HEIGHT_DEGREE))
            /\ ZONES[index + 1].corner2 =
                  Position(FromInt(MIN_LONGITUDE_DEGREES + (lon_idx + 1) * WIDTH_DEGREE),
                           FromInt(MIN_LATITUDE_DEGREES + (lat_idx + 1) * HEIGHT_DEGREE))

\* An in-range lookup in the last row, off the first column, whose index is
\* the row-major one.
C9_RowMajorLookupFound ==
    /\ Called
    /\ InRange(last.position)
    /\ last.outcome = "zone"
    /\ last.zone_index = Len(ZONES) - longitude_bins + 2
    /\ last.zone = last.zone_index + 1

IsPrefix(s, t) == Len(s) <= Len(t) /\ \A k \in 1..Len(s) : t[k] = s[k]

\* C10: once the grid is built, every step keeps the list ZONES and every
\* zone's corners, and keeps every zone's inhabitants as a prefix of its new
\* inhabitants (no population decreases, ingestion order is kept); a step
\* that ingests an agent appends that one agent at the end of one zone's
\* inhabitants and changes no other zone's; a step that only looks up (or
\* whose lookup fails) changes no inhabitants at all.
C10_LookupAndAddFrame ==
    [][ZONES # <<>> =>
        /\ SameGrid(ZONES, ZONES')
        /\ \A i \in 1..Len(ZONES) : IsPrefix(ZONES[i].inhabitants, ZONES'[i].inhabitants)
        /\ IF ingested' = ingested + 1
           THEN \E i \in 1..Len(ZONES) :
                  /\ Len(ZONES'[i].inhabitants) = Len(ZONES[i].inhabitants) + 1
                  /\ ZONES'[i].inhabitants[Len(ZONES'[i].inhabitants)].id = ingested'
                  /\ \A j \in 1..Len(ZONES) :
                        j # i => ZONES'[j].inhabitants = ZONES[j].inhabitants
           ELSE \A i \in 1..Len(ZONES) : ZONES'[i].inhabitants = ZONES[i].inhabitants
    ]_vars

\* A zone holds two agents, the earlier one first.
C10_ZoneWithTwoInhabitants ==
    \E i \in 1..Len(ZONES) :
        /\ population(ZONES[i]) >= 2
        /\ ZONES[i].inhabitants[1].id < ZONES[i].inhabitants[2].id

(***************************************************************************)
(* Properties of the statistics                                            *)
(***************************************************************************)
Answered == answer.op = "xy_values"

\* How many times the agent is in the list, times what it contributes.
Occurrences(inhabitants, agent) ==
    Cardinality({k \in 1..Len(inhabitants) : inhabitants[k] = agent})

RECURSIVE WeightedTotal(_, _, _)
WeightedTotal(agents, inhabitants, graph) ==
    IF agents = {} THEN 0
    ELSE LET agent == CHOOSE a \in agents : TRUE
         IN  Occurrences(inhabitants, agent)
                 * (IF graph = "agreeableness" THEN agent.agreeableness ELSE agent.income)
             + WeightedTotal(agents \ {agent}, inhabitants, graph)

\* C6: for every zone, whatever was added to it, the average of a graph's
\* attribute is the int 0 when the zone has no inhabitants, and otherwise the
\* total of the attribute over the inhabitants, an agent added twice counting
\* twice, divided by the number of inhabitants; no division fault is raised.
C6_AverageIsTotalOverPopulation ==
    Answered =>
        /\ answer.raised = "none"
        /\ Len(answer.y_values) = Len(zones)
        /\ \A i \in 1..Len(zones) :
              IF Len(zones[i].inhabitants) = 0
              THEN answer.y_values[i] = PyInt(0)
              ELSE /\ answer.y_values[i].kind = "float"
                   /\ answer.y_values[i].pi = 0
                   /\ answer.y_values[i].num * Len(zones[i].inhabitants) =
                         WeightedTotal(AgentPool, zones[i].inhabitants, answer.graph)
                             * answer.y_values[i].den

\* The averages were computed for an empty zone and for a zone to which one
\* agent was added twice.
C6_AverageWithDuplicateAndEmptyZone ==
    /\ Answered
    /\ \E i, j \in 1..Len(zones) :
          /\ zones[i].inhabitants = <<>>
          /\ Len(zones[j].inhabitants) = 2
          /\ zones[j].inhabitants[1] = zones[j].inhabitants[2]

ZeroArea(zone) ==
    \/ zone.corner1.longitude_degrees = zone.corner2.longitude_degrees
    \/ zone.corner1.latitude_degrees = zone.corner2.latitude_degrees

\* C7: the density of a zone whose corners share a longitude or a latitude
\* is None, whatever its population, and never a number; the density of any
\* other zone is population / area, the area being the product of the two
\* sides, each |degrees difference| * pi/180 * 6371; and an xy_values pass
\* raises nothing and returns two lists as long as the list of zones.
C7_DensityOfZeroAreaIsNone ==
    Answered =>
        /\ answer.raised = "none"
        /\ Len(answer.x_values) = Len(zones)
        /\ Len(answer.y_values) = Len(zones)
        /\ \A i \in 1..Len(zones) :
              IF ZeroArea(zones[i])
              THEN answer.x_values[i] = None
              ELSE LET lon_h == Abs(zones[i].corner2.longitude_degrees.h
                                       - zones[i].corner1.longitude_degrees.h)
                       lat_h == Abs(zones[i].corner2.latitude_degrees.h
                                       - zones[i].corner1.latitude_degrees.h)
                       square_radius == EARTH_RADIUS_KILOMETERS * EARTH_RADIUS_KILOMETERS
                       x == answer.x_values[i]
                   IN  \* x = population / (lon_h/360 * lat_h/360 * radius^2 * pi^2)
                       /\ x.kind = "float"
                       /\ x.pi = -2
                       /\ x.den > 0
                       /\ x.den % square_radius = 0
                       /\ x.num * lon_h * lat_h =
                             Len(zones[i].inhabitants) * 360 * 360 * (x.den \div square_radius)

\* The densities were computed for a list holding an inhabited zone of zero
\* area, an empty one, and a zone of non-zero area.
C7_PassOverZeroAreaZones ==
    /\ Answered
    /\ \E i, j \in 1..Len(zones) :
          /\ ZeroArea(zones[i])
          /\ Len(zones[i].inhabitants) >= 1
          /\ ~ZeroArea(zones[j])
====
